---- MODULE Spec2Model ----
(***************************************************************************)
(* Model of resolver_distribuicao (src/p3.py): the 0/1 programme that the  *)
(* function builds with pulp from the parsed records, the solve, the count *)
(* of satisfied requests and the value returned.                           *)
(*                                                                         *)
(* A record is the tuple the code builds:                                  *)
(*   fabrica = <<fi, pj, fmax>>     pais = <<pj, pmaxj, pminj>>            *)
(*   pedido  = <<ck, pj, fabricas_ck>>                                     *)
(* A linear expression (pulp.lpSum) is the sequence of its terms, each the *)
(* key <<k, f>> of a variable of x; a key that occurs twice counts twice,  *)
(* as pulp adds the coefficients of a repeated variable.                   *)
(* The solver is any exact solver: it reports Infeasible when no 0/1 point *)
(* satisfies the constraints and otherwise returns SOME optimal point.     *)
(***************************************************************************)
EXTENDS Integers, Sequences, FiniteSets

\* ---------------------------------------------------------------- bounds
MaxPedidos == 2
MaxLista == 2
MaxCap == 1
MaxLimite == 1
MaxAumento == 2

\* The producers and groups of the instances explored.  Producer i is loaded
\* as <<i, GrupoDe[i], cap>>; DesconhecidaId is a producer id that no loaded
\* record carries.  Record ids are distinct within fabricas, paises and
\* pedidos (pulp rejects a repeated constraint name, and the call then
\* returns -1 from its outer handler), and Init is the state in which the
\* three lists have been read (lines 20-46).
FabIds == {1, 2}
PaisIds == {1, 2}
GrupoDe == <<1, 2>>
DesconhecidaId == Cardinality(FabIds) + 1

RECURSIVE SeqsAte(_, _)
SeqsAte(S, n) ==
    IF n = 0 THEN {<<>>}
    ELSE LET menores == SeqsAte(S, n - 1)
         IN  menores \cup {Append(s, e) : s \in {q \in menores : Len(q) = n - 1}, e \in S}

Listas == SeqsAte(FabIds \cup {DesconhecidaId}, MaxLista)

InstFabricas == {[i \in FabIds |-> <<i, GrupoDe[i], c[i]>>] : c \in [FabIds -> 0..MaxCap]}
InstPaises ==
    {[j \in PaisIds |-> <<j, b[j][1], b[j][2]>>] :
        b \in [PaisIds -> (0..MaxLimite) \X (0..MaxLimite)]}
InstPedidos ==
    UNION {{[k \in 1..n |-> <<k, g[k], l[k]>>] :
                g \in [1..n -> PaisIds], l \in [1..n -> Listas]} : n \in 0..MaxPedidos}

VARIABLES fabricas, paises, pedidos, pc, x, problema, status, valores,
          resultado, ret, fabricas2, paises2, ret1, ret2, fase

instancia == <<fabricas, paises, pedidos>>
execucao == <<pc, x, problema, status, valores, resultado, ret>>
relaxacao == <<fabricas2, paises2, ret1, ret2, fase>>
vars == <<instancia, execucao, relaxacao>>

\* ------------------------------------------------------- the programme
TermosPedido(p) == [j \in 1..Len(p[3]) |-> [k |-> p[1], pais |-> p[2], f |-> p[3][j]]]

RECURSIVE Termos(_)
Termos(peds) ==
    IF peds = <<>> THEN <<>> ELSE TermosPedido(Head(peds)) \o Termos(Tail(peds))

lpSum(ts) == [i \in 1..Len(ts) |-> <<ts[i].k, ts[i].f>>]

VariaveisX(peds) == {<<t.k, t.f>> : t \in {Termos(peds)[i] : i \in 1..Len(Termos(peds))}}

Objetivo(peds) == lpSum(Termos(peds))

RestricaoCapacidade(fab, peds) ==
    [nome |-> <<"Capacidade_fabrica", fab[1]>>,
     expr |-> lpSum(SelectSeq(Termos(peds), LAMBDA t : t.f = fab[1])),
     sentido |-> "<=", rhs |-> fab[3]]

ExportacaoMaxima(p, peds) ==
    [nome |-> <<"Exportacao_maxima", p[1]>>,
     expr |-> lpSum(SelectSeq(Termos(peds), LAMBDA t : t.pais = p[1])),
     sentido |-> "<=", rhs |-> p[2]]

\* ExportacaoMinima with the sense of the inequality turned
ExportacaoMinimaInvertida(p, peds) ==
    [nome |-> <<"Exportacao_minima", p[1]>>,
     expr |-> lpSum(SelectSeq(Termos(peds), LAMBDA t : t.pais = p[1])),
     sentido |-> "<=", rhs |-> p[3]]

ExportacaoMinima(p, peds) ==
    [nome |-> <<"Exportacao_minima", p[1]>>,
     expr |-> lpSum(SelectSeq(Termos(peds), LAMBDA t : t.pais = p[1])),
     sentido |-> ">=", rhs |-> p[3]]

PedidoUnico(p) ==
    [nome |-> <<"Pedido_unico", p[1]>>,
     expr |-> lpSum(TermosPedido(p)),
     sentido |-> "<=", rhs |-> 1]

RestricoesCapacidade(fabs, peds) ==
    {RestricaoCapacidade(fabs[i], peds) : i \in 1..Len(fabs)}

\* RestricoesPaises that skips the groups without a participating variable
RestricoesPaisesComVariavel(ps, peds) ==
    {c \in {ExportacaoMaxima(ps[j], peds) : j \in 1..Len(ps)}
                \cup {ExportacaoMinima(ps[j], peds) : j \in 1..Len(ps)} :
        c.expr # <<>>}

RestricoesPaises(ps, peds) ==
    {ExportacaoMaxima(ps[j], peds) : j \in 1..Len(ps)}
        \cup {ExportacaoMinima(ps[j], peds) : j \in 1..Len(ps)}

RestricoesUnico(peds) == {PedidoUnico(peds[i]) : i \in 1..Len(peds)}

Problema(fabs, ps, peds) ==
    [objetivo |-> Objetivo(peds),
     restricoes |-> RestricoesCapacidade(fabs, peds)
                        \cup RestricoesPaises(ps, peds)
                        \cup RestricoesUnico(peds)]

\* the value of a linear expression at the point v
RECURSIVE Valor(_, _)
Valor(expr, v) ==
    IF expr = <<>> THEN 0 ELSE v[Head(expr)] + Valor(Tail(expr), v)

Satisfaz(c, v) ==
    IF c.sentido = "<=" THEN Valor(c.expr, v) <= c.rhs ELSE Valor(c.expr, v) >= c.rhs

Viavel(prob, v) == \A c \in prob.restricoes : Satisfaz(c, v)

Solucoes(prob, xs) == {v \in [xs -> {0, 1}] : Viavel(prob, v)}

Otimas(prob, xs) ==
    LET sols == Solucoes(prob, xs)
    IN  {v \in sols : \A w \in sols : Valor(prob.objetivo, w) <= Valor(prob.objetivo, v)}

Atendido(p, v) == \E j \in 1..Len(p[3]) : v[<<p[1], p[3][j]>>] = 1

Contar(peds, v) == Cardinality({i \in 1..Len(peds) : Atendido(peds[i], v)})

\* Retorno without the check that every request was satisfied
RetornoSemGarantia(peds, res) == res

Retorno(peds, res) == IF res < Len(peds) THEN -1 ELSE res

\* every value resolver_distribuicao can return on a parsed instance
Resultados(fabs, ps, peds) ==
    LET prob == Problema(fabs, ps, peds)
        xs == VariaveisX(peds)
        otimas == Otimas(prob, xs)
    IN  IF otimas = {} THEN {-1}
        ELSE {Retorno(peds, Contar(peds, v)) : v \in otimas}

\* ------------------------------------------------------------ one call
Init ==
    /\ fabricas \in InstFabricas
    /\ paises \in InstPaises
    /\ pedidos \in InstPedidos
    /\ pc = "criar"
    /\ x = {}
    /\ problema = [objetivo |-> <<>>, restricoes |-> {}]
    /\ status = "Not Solved"
    /\ valores = <<>>
    /\ resultado = 0
    /\ ret = 0
    /\ fabricas2 = fabricas
    /\ paises2 = paises
    /\ ret1 = 0
    /\ ret2 = 0
    /\ fase = "inicio"

CriarModelo ==
    /\ pc = "criar"
    /\ x' = VariaveisX(pedidos)
    /\ problema' = Problema(fabricas, paises, pedidos)
    /\ pc' = "resolver"
    /\ UNCHANGED <<instancia, relaxacao, status, valores, resultado, ret>>

ResolverInviavel ==
    /\ pc = "resolver"
    /\ Solucoes(problema, x) = {}
    /\ status' = "Infeasible"
    /\ pc' = "status"
    /\ UNCHANGED <<instancia, relaxacao, x, problema, valores, resultado, ret>>

ResolverOtimo ==
    /\ pc = "resolver"
    /\ \E v \in Otimas(problema, x) :
        /\ valores' = v
        /\ status' = "Optimal"
    /\ pc' = "status"
    /\ UNCHANGED <<instancia, relaxacao, x, problema, resultado, ret>>

VerificarStatus ==
    /\ pc = "status"
    /\ IF status \notin {"Optimal", "Feasible"}
       THEN ret' = -1 /\ pc' = "fim"
       ELSE ret' = ret /\ pc' = "calcular"
    /\ UNCHANGED <<instancia, relaxacao, x, problema, status, valores, resultado>>

CalcularResultado ==
    /\ pc = "calcular"
    /\ resultado' = Contar(pedidos, valores)
    /\ pc' = "garantir"
    /\ UNCHANGED <<instancia, relaxacao, x, problema, status, valores, ret>>

GarantirTodos ==
    /\ pc = "garantir"
    /\ ret' = Retorno(pedidos, resultado)
    /\ pc' = "fim"
    /\ UNCHANGED <<instancia, relaxacao, x, problema, status, valores, resultado>>

Next ==
    \/ CriarModelo
    \/ ResolverInviavel
    \/ ResolverOtimo
    \/ VerificarStatus
    \/ CalcularResultado
    \/ GarantirTodos

Spec == Init /\ [][Next]_vars

\* ------------------------------- two calls, the second on a relaxed bound
ResolverOriginal ==
    /\ fase = "inicio"
    /\ ret1' \in Resultados(fabricas, paises, pedidos)
    /\ fase' = "original"
    /\ UNCHANGED <<instancia, execucao, fabricas2, paises2, ret2>>

AumentarCapacidade(i, d) ==
    /\ fase = "original"
    /\ fabricas2' = [fabricas EXCEPT ![i][3] = @ + d]
    /\ ret2' \in Resultados(fabricas2', paises, pedidos)
    /\ fase' = "relaxada"
    /\ UNCHANGED <<instancia, execucao, paises2, ret1>>

AumentarMaximo(j, d) ==
    /\ fase = "original"
    /\ paises2' = [paises EXCEPT ![j][2] = @ + d]
    /\ ret2' \in Resultados(fabricas, paises2', pedidos)
    /\ fase' = "relaxada"
    /\ UNCHANGED <<instancia, execucao, fabricas2, ret1>>

DiminuirMinimo(j, d) ==
    /\ fase = "original"
    /\ paises2' = [paises EXCEPT ![j][3] = @ - d]
    /\ ret2' \in Resultados(fabricas, paises2', pedidos)
    /\ fase' = "relaxada"
    /\ UNCHANGED <<instancia, execucao, fabricas2, ret1>>

NextMono ==
    \/ ResolverOriginal
    \/ \E i \in 1..Len(fabricas), d \in 1..MaxAumento : AumentarCapacidade(i, d)
    \/ \E j \in 1..Len(paises), d \in 1..MaxAumento : AumentarMaximo(j, d)
    \/ \E j \in 1..Len(paises), d \in 1..MaxAumento : DiminuirMinimo(j, d)

SpecMono == Init /\ [][NextMono]_vars

\* ------------------------------------------------- notions of the claims
IdsFabricas == {fabricas[i][1] : i \in 1..Len(fabricas)}

PaisDaFabrica(f) == (CHOOSE fab \in {fabricas[i] : i \in 1..Len(fabricas)} : fab[1] = f)[2]

PedidoDe(k) == CHOOSE p \in {pedidos[i] : i \in 1..Len(pedidos)} : p[1] = k

ListaDe(p) == {p[3][j] : j \in 1..Len(p[3])}

SemRepetidos(l) == \A a, b \in 1..Len(l) : l[a] = l[b] => a = b

\* an instance whose eligibility lists name loaded producers only, each once
InstanciaLimpa ==
    \A i \in 1..Len(pedidos) :
        SemRepetidos(pedidos[i][3]) /\ ListaDe(pedidos[i]) \subseteq IdsFabricas

\* a foreign-sourced variable: the request's group differs from the producer's
Estrangeira(key) ==
    /\ key[2] \in IdsFabricas
    /\ PaisDaFabrica(key[2]) # PedidoDe(key[1])[2]

TotalEstrangeiro(j, v) ==
    Cardinality({key \in x : v[key] = 1 /\ PedidoDe(key[1])[2] = j /\ Estrangeira(key)})

CargaFabrica(f, v) == Cardinality({key \in x : v[key] = 1 /\ key[2] = f})

RECURSIVE Soma(_, _)
Soma(f, S) == IF S = {} THEN 0 ELSE LET e == CHOOSE e \in S : TRUE IN f[e] + Soma(f, S \ {e})

SomaCapacidades == Soma([i \in 1..Len(fabricas) |-> fabricas[i][3]], 1..Len(fabricas))

PedidosIncluidos == {i \in 1..Len(pedidos) : ListaDe(pedidos[i]) \cap IdsFabricas # {}}

\* the largest number of requests any point of the constraint system satisfies
MaximoAtendidos ==
    CHOOSE n \in 0..Len(pedidos) :
        /\ \E v \in Solucoes(problema, x) : Contar(pedidos, v) = n
        /\ \A v \in Solucoes(problema, x) : Contar(pedidos, v) <= n

\* some point of the constraint system satisfies every request record
ExisteAtendimentoTotal ==
    \E v \in [x -> {0, 1}] :
        /\ Viavel(problema, v)
        /\ \A i \in 1..Len(pedidos) : Atendido(pedidos[i], v)

RECURSIVE SemDuplicados(_)
SemDuplicados(l) ==
    IF l = <<>> THEN <<>>
    ELSE LET resto == SemDuplicados(SelectSeq(Tail(l), LAMBDA e : e # Head(l)))
         IN  <<Head(l)>> \o resto

PedidosSemDuplicados ==
    [i \in 1..Len(pedidos) |-> <<pedidos[i][1], pedidos[i][2], SemDuplicados(pedidos[i][3])>>]

\* group record j has no decision variable among its requests
GrupoSemVariavel(j) == \A key \in x : PedidoDe(key[1])[2] # paises[j][1]

PaisesComVariavel == SelectSeq(paises, LAMBDA p : \E key \in x : PedidoDe(key[1])[2] = p[1])

\* ----------------------------------------------------------------- C1
\* C1 (as claimed): whenever a count is returned, the counted values are a
\* valid assignment: at most one producer per request, taken from its list,
\* per-producer load <= capacity, and every group's foreign-sourced total
\* within [min, max].  Stated on instances without unknown or repeated ids.
C1_AtribuicaoValida ==
    (pc = "fim" /\ ret >= 0 /\ InstanciaLimpa) =>
        /\ \A i \in 1..Len(pedidos) :
              Cardinality({f \in ListaDe(pedidos[i]) : valores[<<pedidos[i][1], f>>] = 1}) <= 1
        /\ \A i \in 1..Len(fabricas) : CargaFabrica(fabricas[i][1], valores) <= fabricas[i][3]
        /\ \A j \in 1..Len(paises) :
              /\ TotalEstrangeiro(paises[j][1], valores) <= paises[j][2]
              /\ TotalEstrangeiro(paises[j][1], valores) >= paises[j][3]

\* ----------------------------------------------------------------- C2
\* C2 (as claimed): on a feasible constraint system the value returned is the
\* maximum number of requests that can be satisfied at once, also when that
\* maximum is below the number of requests.  Stated on instances without
\* unknown or repeated ids.
C2_RetornaMaximo ==
    (pc = "fim" /\ status = "Optimal" /\ InstanciaLimpa) => ret = MaximoAtendidos

\* ----------------------------------------------------------------- C3
\* C3: the call returns the number of request records when some point of the
\* constraint system satisfies all of them, and -1 in every other case; a
\* returned count is never below the number of request records.
C3_TudoOuMenosUm ==
    pc = "fim" =>
        /\ ret = (IF ExisteAtendimentoTotal THEN Len(pedidos) ELSE -1)
        /\ (ret >= 0 => ret >= Len(pedidos))

C3_Witness ==
    /\ pc = "fim"
    /\ Len(pedidos) = 2
    /\ ret = 2
    /\ InstanciaLimpa

\* ----------------------------------------------------------------- C4
\* C4 (as claimed): the expression bounded by a group's max and min holds only
\* variables whose request is of the group and whose producer is of another
\* group.
\* Hence, when no variable is foreign-sourced and every min is 0, the group
\* bounds bind nothing and the call returns what it returns without them.
C4_SoEstrangeiras ==
    /\ \A c \in problema.restricoes :
          c.nome[1] \in {"Exportacao_maxima", "Exportacao_minima"} =>
              \A t \in 1..Len(c.expr) :
                  /\ PedidoDe(c.expr[t][1])[2] = c.nome[2]
                  /\ (c.expr[t][2] \in IdsFabricas => Estrangeira(c.expr[t]))
    /\ (pc = "fim" /\ InstanciaLimpa
            /\ (\A key \in x : ~Estrangeira(key))
            /\ (\A j \in 1..Len(paises) : paises[j][3] = 0))
          => ret \in Resultados(fabricas, <<>>, pedidos)

\* ----------------------------------------------------------------- C5
\* C5 (as claimed): no decision variable exists for a listed id that is not a
\* loaded producer, no request is counted through such an id, and a sole
\* request that lists only such ids gives the count 0.
C5_DesconhecidaDescartada ==
    /\ \A key \in x : key[2] \in IdsFabricas
    /\ (pc = "fim" /\ Len(pedidos) = 1 /\ PedidosIncluidos = {}
            /\ Solucoes(problema, x) # {}) => ret = 0

\* ----------------------------------------------------------------- C6
\* C6 (as claimed): a returned count exceeds neither the number of included
\* requests nor the sum of the capacities of the loaded producers.
C6_LimitesDaContagem ==
    (pc = "fim" /\ ret >= 0) =>
        /\ ret <= Cardinality(PedidosIncluidos)
        /\ ret <= SomaCapacidades

\* ----------------------------------------------------------------- C7
\* C7 (as claimed): the failure value is returned exactly when no 0/1 point
\* satisfies the constraints; a feasible instance yields a count.
C7_InviavelExatamente ==
    pc = "fim" => (ret = -1 <=> Solucoes(problema, x) = {})

\* ----------------------------------------------------------------- C8
\* C8: relaxing one bound (a capacity raised, a max raised, a min lowered)
\* never lowers the value returned, -1 being below every count.
C8_Monotonia ==
    fase = "relaxada" => ret2 >= ret1

C8_Witness ==
    /\ fase = "relaxada"
    /\ ret1 = -1
    /\ ret2 = 2

\* ----------------------------------------------------------------- C9
\* C9 (as claimed): a request that lists a producer id more than once gives
\* the result of the instance in which it lists it once.  Stated on instances
\* whose lists name loaded producers only.
C9_DuplicadosRemovidos ==
    (pc = "fim" /\ \A i \in 1..Len(pedidos) : ListaDe(pedidos[i]) \subseteq IdsFabricas)
        => ret \in Resultados(fabricas, paises, PedidosSemDuplicados)

\* ---------------------------------------------------------------- C10
\* C10 (as claimed): a group with no participating variable is skipped: the
\* call fails only if the system without the bounds of such groups fails.
C10_GrupoVazioIgnorado ==
    /\ \A c \in problema.restricoes :
          c.nome[1] \in {"Exportacao_maxima", "Exportacao_minima", "Capacidade_fabrica"}
              => c.expr # <<>>
    /\ pc = "fim" => ret \in Resultados(fabricas, PaisesComVariavel, pedidos)

\* C10 (amended): both bound constraints are emitted for every group record
\* and a capacity constraint for every producer record, with or without a
\* participating variable; a group without one and with a positive minimum
\* makes the call return -1.
C10_GrupoVazioRestringe ==
    /\ pc # "criar" =>
          /\ \A j \in 1..Len(paises) :
                /\ \E c \in problema.restricoes :
                      c.nome = <<"Exportacao_maxima", paises[j][1]>> /\ c.rhs = paises[j][2]
                /\ \E c \in problema.restricoes :
                      c.nome = <<"Exportacao_minima", paises[j][1]>> /\ c.rhs = paises[j][3]
          /\ \A i \in 1..Len(fabricas) :
                \E c \in problema.restricoes :
                    c.nome = <<"Capacidade_fabrica", fabricas[i][1]>> /\ c.rhs = fabricas[i][3]
    /\ pc = "fim" =>
          ((\E j \in 1..Len(paises) : GrupoSemVariavel(j) /\ paises[j][3] > 0) => ret = -1)

C10_Witness ==
    /\ pc = "fim"
    /\ ret = -1
    /\ \E j \in 1..Len(paises) : GrupoSemVariavel(j) /\ paises[j][3] > 0
    /\ Len(pedidos) > 0
    /\ Resultados(fabricas, PaisesComVariavel, pedidos) = {Len(pedidos)}

====
